---- MODULE Spec2Model ----
(***************************************************************************)
(* State-machine model of src/src/experiment.py: the Experiment class of   *)
(* the DLG (Deep Leakage from Gradients) attack.                           *)
(*                                                                         *)
(* Experiment.__init__ and Experiment.train are modelled statement group   *)
(* by statement group (pc is the position inside the running method), so   *)
(* that the order of the steps inside one call and an exception leaving a  *)
(* call half way are both visible.  Tensors are modelled by small          *)
(* representative values; the classifier, the L-BFGS optimizer and the     *)
(* skimage metrics are external libraries and are modelled by their        *)
(* effect on the Experiment's state (which accumulators they write, which  *)
(* tensors they update, how often they call the closure).                  *)
(***************************************************************************)
EXTENDS Integers, Sequences, FiniteSets, TLC

\* ------------------------------------------------------------------ bounds
\* num_epochs ranges over 1..MaxEpochs
MaxEpochs == 2
\* val_size ranges over 1..MaxValSize
MaxValSize == 2
\* train() is called at most MaxRuns times on one object
MaxRuns == 2
\* at most MaxEval closure evaluations inside one optimizer.step
MaxEval == 2
\* a .grad accumulator counts the backward passes it holds, up to GradCap
GradCap == 2

\* ------------------------------------------------------------- input sets
ValidMeasures == {"euclidean", "gaussian"}
ValidInitTypes == {"uniform", "gaussian", "gaussian_shift"}
\* representative tensor values (one number stands for a whole tensor)
DataVals == {0, 1}
\* the ground-truth batch random.choices draws (line 53), one representative
GtVals == {1}
\* the (measure, init_type) pairs of params that are tried
Configs == {<<"euclidean", "uniform">>, <<"gaussian", "gaussian">>,
            <<"euclidean", "gaussian_shift">>, <<"gaussian", "bimodal">>,
            <<"l1", "uniform">>, <<"l1", "bimodal">>}
LossVals == {0, 1}
Series == {"psnr", "ssim", "mse"}

VARIABLES
    \* params (lines 28-36)
    num_epochs, val_size, measure, init_type,
    \* attributes of the Experiment object
    gt_data, original_dy_dx, loss_measure, iters, losses, history,
    netGrad,            \* .grad accumulator of the classifier parameters
    \* control
    pc, ret, err,
    \* locals of train()
    dummy_data, dummy_label, dataGrad, labelGrad,
    train_loss, epoch, evals, current_loss,
    \* history variables of the verification
    gradComputations,   \* number of compute_original_grad() executions
    calls, completed,   \* train() calls started / returned normally
    steps,              \* optimizer.step(closure) calls finished in this train()
    evalMeasure,        \* the measure object used by the last closure evaluation
    histTag, lossTag,   \* provenance of history entries / of per-run sequences
    dropped             \* metric values of train_loss lost with the last raise

params == <<num_epochs, val_size, measure, init_type>>
setup == <<gt_data, original_dy_dx, loss_measure, iters, gradComputations>>
record == <<losses, history, histTag, lossTag>>
tensors == <<dummy_data, dummy_label>>
accums == <<dataGrad, labelGrad, netGrad>>
frame == <<train_loss, epoch, evals, current_loss, ret>>
count == <<calls, completed, steps, dropped>>
vars == <<params, setup, record, tensors, accums, frame, count, pc, err,
          evalMeasure>>

\* ---------------------------------------------------------- pure helpers
NoMeasure == [kind |-> "unset"]
EmptySeries == [s \in Series |-> <<>>]

RECURSIVE Arange(_, _, _)
\* np.arange(start, stop, step) for positive step
Arange(start, stop, step) ==
    IF start >= stop THEN <<>>
    ELSE <<start>> \o Arange(start + step, stop, step)

RECURSIVE SumSeq(_)
SumSeq(s) == IF s = <<>> THEN 0 ELSE Head(s) + SumSeq(Tail(s))

\* torch.var(torch.cat(all_grads), dim=0): unbiased sample variance
Var(s) ==
    LET n == Len(s)
        sq == [i \in 1..n |-> s[i] * s[i]]
    IN (n * SumSeq(sq) - SumSeq(s) * SumSeq(s)) \div (n * (n - 1))

\* params["Q"], the bandwidth handed to gaussian_measure
Q == 1

\* the gradient list of the ground-truth batch under the (fixed) classifier
compute_original_grad(gt) == <<gt, gt + 2, gt + 4>>

\* what a call that raises ValueError yields in place of a result
Raises == [kind |-> "ValueError"]

\* a wrong fallback: an unknown measure silently becomes the euclidean one
create_loss_measure_fallback(m, g) ==
    IF m = "gaussian"
    THEN [kind |-> "gaussian", sigma |-> Var(g), Q |-> Q]
    ELSE [kind |-> "euclidean"]

\* lines 136-146
create_loss_measure(m, g) ==
    CASE m = "euclidean" -> [kind |-> "euclidean"]
      [] m = "gaussian" -> [kind |-> "gaussian", sigma |-> Var(g), Q |-> Q]
      [] OTHER -> Raises

\* a wrong fallback: an unknown init_type silently becomes the uniform one
init_data_fallback(t) == DataVals

\* lines 148-168: the values the dummy tensors can be drawn as; the empty
\* set stands for the ValueError of the last branch
init_data(t) ==
    CASE t = "uniform" -> DataVals
      [] t = "gaussian" -> DataVals
      [] t = "gaussian_shift" -> DataVals
      [] OTHER -> {}

\* transforms.ToPILImage on a float tensor: pic.mul(255).byte()
tt(d) == d * 255

\* skimage metrics: the scalar is determined by the two images
Metric(name, ref, img) == [metric |-> name, ref |-> ref, img |-> img]

\* one backward pass accumulates into a .grad field
Accumulate(g) == IF g < GradCap THEN g + 1 ELSE g

Idle == {"ready", "done", "raised"}

\* ------------------------------------------------------------------- Init
Init ==
    /\ num_epochs \in 1..MaxEpochs
    /\ val_size \in 1..MaxValSize
    /\ \E c \in Configs : measure = c[1] /\ init_type = c[2]
    /\ gt_data = 0
    /\ original_dy_dx = <<>>
    /\ loss_measure = NoMeasure
    /\ iters = <<>>
    /\ losses = EmptySeries
    /\ history = <<>>
    /\ netGrad = 0
    /\ pc = "new"
    /\ ret = "none"
    /\ err = "none"
    /\ dummy_data = 0
    /\ dummy_label = 0
    /\ dataGrad = 0
    /\ labelGrad = 0
    /\ train_loss = EmptySeries
    /\ epoch = 0
    /\ evals = 0
    /\ current_loss = 0
    /\ gradComputations = 0
    /\ calls = 0
    /\ completed = 0
    /\ steps = 0
    /\ evalMeasure = NoMeasure
    /\ histTag = <<>>
    /\ lossTag = <<>>
    /\ dropped = 0

\* --------------------------------------------------------------- __init__
\* lines 19-56: parameters, network, dataset, ground-truth batch
InitLoadGroundTruths ==
    /\ pc = "new"
    /\ \E g \in GtVals : gt_data' = g
    /\ pc' = "init_gt"
    /\ UNCHANGED <<params, original_dy_dx, loss_measure, iters,
                   gradComputations, record, tensors, accums, frame, count,
                   err, evalMeasure>>

\* line 57: self.original_dy_dx = self.compute_original_grad()
\* torch.autograd.grad returns the gradients; it writes no .grad accumulator
InitComputeOriginalGrad ==
    /\ pc = "init_gt"
    /\ original_dy_dx' = compute_original_grad(gt_data)
    /\ gradComputations' = gradComputations + 1
    /\ pc' = "init_grad"
    /\ UNCHANGED <<params, gt_data, loss_measure, iters, record, tensors,
                   accums, frame, count, err, evalMeasure>>

\* line 60: self.loss_measure = self.create_loss_measure()
InitCreateLossMeasure ==
    /\ pc = "init_grad"
    /\ IF create_loss_measure(measure, original_dy_dx) # Raises
       THEN /\ loss_measure' = create_loss_measure(measure, original_dy_dx)
            /\ pc' = "init_measure"
            /\ err' = err
       ELSE /\ pc' = "init_failed"
            /\ err' = "ValueError"
            /\ loss_measure' = loss_measure
    /\ UNCHANGED <<params, gt_data, original_dy_dx, iters, gradComputations,
                   record, tensors, accums, frame, count, evalMeasure>>

\* lines 63-65: iters, losses, history
InitHistory ==
    /\ pc = "init_measure"
    /\ iters' = Arange(0, num_epochs, val_size)
    /\ losses' = EmptySeries
    /\ history' = <<>>
    /\ pc' = "ready"
    /\ UNCHANGED <<params, gt_data, original_dy_dx, loss_measure,
                   gradComputations, histTag, lossTag, tensors, accums, frame,
                   count, err, evalMeasure>>

\* ------------------------------------------------------------------ train
\* train() is left (return or exception): its frame and locals are gone
FrameGone ==
    /\ dummy_data' = 0
    /\ dummy_label' = 0
    /\ dataGrad' = 0
    /\ labelGrad' = 0
    /\ train_loss' = EmptySeries
    /\ epoch' = 0
    /\ evals' = 0
    /\ current_loss' = 0
    /\ ret' = "none"

\* a wrong recovery: the raise undoes the snapshots of the failing run
Raise_rollback(e) ==
    /\ pc' = "raised"
    /\ err' = e
    /\ dropped' = Len(train_loss["psnr"])
    /\ FrameGone
    /\ history' = SubSeq(history, 1,
            Len(history) - Cardinality({j \in 1..Len(histTag) :
                               pc \notin Idle /\ histTag[j].call = calls}))
    /\ UNCHANGED <<params, setup, losses, histTag, lossTag, netGrad,
                   completed, evalMeasure>>

\* An exception leaves train(): nothing catches it, the attributes of the
\* object stay as they are, train_loss goes with the frame.
Raise(e) ==
    /\ pc' = "raised"
    /\ err' = e
    /\ dropped' = Len(train_loss["psnr"])
    /\ FrameGone
    /\ UNCHANGED <<params, setup, record, netGrad, completed, evalMeasure>>

\* lines 70-75: init_data(), the optimizer, gt_im, train_loss
TrainInitData ==
    /\ pc \in Idle
    /\ calls < MaxRuns
    /\ calls' = calls + 1
    /\ steps' = 0
    /\ IF init_data(init_type) # {}
       THEN /\ \E d \in init_data(init_type), l \in init_data(init_type) :
                 /\ dummy_data' = d
                 /\ dummy_label' = l
            /\ dataGrad' = 0
            /\ labelGrad' = 0
            /\ train_loss' = EmptySeries
            /\ epoch' = 0
            /\ pc' = "loop"
            /\ err' = "none"
            /\ UNCHANGED <<params, setup, record, netGrad, completed,
                           evalMeasure, dropped, evals, current_loss, ret>>
       ELSE Raise("ValueError")

\* line 76 and line 91: the loop takes the next epoch and calls
\* optimizer.step(closure), which starts by evaluating the closure
OptimizerStep ==
    /\ pc = "loop"
    /\ epoch < num_epochs
    /\ pc' = "closure"
    /\ ret' = "step"
    /\ evals' = 0
    /\ UNCHANGED <<params, setup, record, tensors, accums, train_loss, epoch,
                   current_loss, count, err, evalMeasure>>

\* a wrong optimizer: built over [dummy_data] alone, it clears only that
zero_grad_data_only ==
    /\ dataGrad' = 0
    /\ labelGrad' = labelGrad
    /\ netGrad' = netGrad

\* line 78: optimizer.zero_grad() clears the .grad of the optimizer's own
\* parameters, [dummy_data, dummy_label] (line 71)
zero_grad ==
    /\ dataGrad' = 0
    /\ labelGrad' = 0
    /\ netGrad' = netGrad

ClosureZeroGrad ==
    /\ pc = "closure"
    /\ zero_grad
    /\ pc' = "closure_fwd"
    /\ UNCHANGED <<params, setup, record, tensors, frame, count, err,
                   evalMeasure>>

\* a wrong gradient list: not detached, the backward pass reaches it
backward_into_original ==
    /\ dataGrad' = Accumulate(dataGrad)
    /\ labelGrad' = Accumulate(labelGrad)
    /\ netGrad' = Accumulate(netGrad)
    /\ original_dy_dx' = [i \in 1..Len(original_dy_dx) |-> original_dy_dx[i] + 1]
    /\ UNCHANGED <<tensors, loss_measure>>

\* a wrong closure: the evaluation itself moves the dummy tensors
backward_inplace ==
    /\ dataGrad' = Accumulate(dataGrad)
    /\ labelGrad' = Accumulate(labelGrad)
    /\ netGrad' = Accumulate(netGrad)
    /\ \E d \in DataVals, l \in DataVals : dummy_data' = d /\ dummy_label' = l
    /\ UNCHANGED <<original_dy_dx, loss_measure>>

\* lines 80-89: forward pass, dummy gradient, measure, grad_diff.backward().
\* backward() accumulates into the .grad of every leaf that requires grad:
\* dummy_data, dummy_label and the classifier parameters.  It writes no
\* tensor value; original_dy_dx is detached (line 113) and out of its reach.
backward ==
    /\ dataGrad' = Accumulate(dataGrad)
    /\ labelGrad' = Accumulate(labelGrad)
    /\ netGrad' = Accumulate(netGrad)
    /\ UNCHANGED <<tensors, original_dy_dx, loss_measure>>

ClosureBackward ==
    /\ pc = "closure_fwd"
    /\ evalMeasure' = loss_measure
    /\ backward
    /\ \E l \in LossVals : current_loss' = l
    /\ IF ret = "step"
       THEN /\ pc' = "lbfgs"            \* back inside optimizer.step
            /\ evals' = evals + 1
       ELSE /\ pc' = "record"           \* back at line 93
            /\ evals' = evals
    /\ ret' = "none"
    /\ UNCHANGED <<params, gt_data, iters, gradComputations, record,
                   train_loss, epoch, count, err>>

\* a forward/backward pass fails (inside optimizer.step or at line 93)
ClosureRaise ==
    /\ pc = "closure_fwd"
    /\ Raise("RuntimeError")
    /\ UNCHANGED <<calls, steps>>

\* inside optimizer.step: L-BFGS updates its parameters in place and
\* evaluates the closure again
LbfgsIterate ==
    /\ pc = "lbfgs"
    /\ evals < MaxEval
    /\ \E d \in DataVals, l \in DataVals :
          /\ dummy_data' = d
          /\ dummy_label' = l
    /\ pc' = "closure"
    /\ ret' = "step"
    /\ UNCHANGED <<params, setup, record, accums, train_loss, epoch, evals,
                   current_loss, count, err, evalMeasure>>

\* optimizer.step returns: whatever the loss values were, the loop goes on
\* to line 92; the value step() returns is discarded
LbfgsReturn ==
    /\ pc = "lbfgs"
    /\ steps' = steps + 1
    /\ current_loss' = 0
    /\ evals' = 0
    /\ pc' = "after_step"
    /\ UNCHANGED <<params, setup, record, tensors, accums, train_loss, epoch,
                   ret, calls, completed, dropped, err, evalMeasure>>

\* a wrong test: the snapshot at the end of each interval
IsValEpoch_end(e, v) == (e + 1) % v = 0

\* line 92: iters % self.val_size == 0
IsValEpoch(e, v) == e % v = 0

ValCheck ==
    /\ pc = "after_step"
    /\ IF IsValEpoch(epoch, val_size)
       THEN /\ pc' = "closure"          \* line 93: current_loss = closure()
            /\ ret' = "snap"
            /\ epoch' = epoch
       ELSE /\ pc' = "loop"
            /\ ret' = ret
            /\ epoch' = epoch + 1
    /\ UNCHANGED <<params, setup, record, tensors, accums, train_loss, evals,
                   current_loss, count, err, evalMeasure>>

\* lines 94-95: print, self.history.append(...)
RecordHistory ==
    /\ pc = "record"
    /\ history' = Append(history, tt(dummy_data))
    /\ histTag' = Append(histTag,
                         [call |-> calls, epoch |-> epoch, steps |-> steps])
    /\ pc' = "metrics"
    /\ UNCHANGED <<params, setup, losses, lossTag, tensors, accums, frame,
                   count, err, evalMeasure>>

\* a wrong loop: it stops as soon as a reported loss is zero
RecordMetrics_early_stop ==
    /\ pc = "metrics"
    /\ train_loss' = [s \in Series |->
                        Append(train_loss[s], Metric(s, gt_data, dummy_data))]
    /\ epoch' = IF current_loss = 0 THEN num_epochs ELSE epoch + 1
    /\ current_loss' = 0
    /\ pc' = "loop"
    /\ UNCHANGED <<params, setup, record, tensors, accums, evals, ret, count,
                   err, evalMeasure>>

\* lines 97-100: the three metrics go to the local train_loss; current_loss
\* was printed at line 94 and is not read again
RecordMetrics ==
    /\ pc = "metrics"
    /\ train_loss' = [s \in Series |->
                        Append(train_loss[s], Metric(s, gt_data, dummy_data))]
    /\ epoch' = epoch + 1
    /\ current_loss' = 0
    /\ pc' = "loop"
    /\ UNCHANGED <<params, setup, record, tensors, accums, evals, ret, count,
                   err, evalMeasure>>

\* a metric computation fails (lines 97-100)
MetricRaise ==
    /\ pc = "metrics"
    /\ Raise("RuntimeError")
    /\ UNCHANGED <<calls, steps>>

\* a wrong finish: self.losses is overwritten with the sequences of this run
TrainFinish_reset ==
    /\ pc = "loop"
    /\ epoch >= num_epochs
    /\ losses' = [s \in Series |-> <<train_loss[s]>>]
    /\ lossTag' = Append(lossTag, calls)
    /\ completed' = completed + 1
    /\ pc' = "done"
    /\ FrameGone
    /\ UNCHANGED <<params, setup, history, histTag, netGrad, calls, steps,
                   dropped, err, evalMeasure>>

\* lines 102-104: range(num_epochs) is exhausted, the sequences of the run
\* are appended to self.losses, train() returns
TrainFinish ==
    /\ pc = "loop"
    /\ epoch >= num_epochs
    /\ losses' = [s \in Series |-> Append(losses[s], train_loss[s])]
    /\ lossTag' = Append(lossTag, calls)
    /\ completed' = completed + 1
    /\ pc' = "done"
    /\ FrameGone
    /\ UNCHANGED <<params, setup, history, histTag, netGrad, calls, steps,
                   dropped, err, evalMeasure>>

Next ==
    \/ InitLoadGroundTruths
    \/ InitComputeOriginalGrad
    \/ InitCreateLossMeasure
    \/ InitHistory
    \/ TrainInitData
    \/ OptimizerStep
    \/ ClosureZeroGrad
    \/ ClosureBackward
    \/ ClosureRaise
    \/ LbfgsIterate
    \/ LbfgsReturn
    \/ ValCheck
    \/ RecordHistory
    \/ RecordMetrics
    \/ MetricRaise
    \/ TrainFinish

Spec == Init /\ [][Next]_vars

\* ================================================================ claims
\* positions of pc before the constructor has returned normally
InConstructor == pc \in {"new", "init_gt", "init_grad", "init_measure", "init_failed"}
\* positions of pc inside the epoch loop of train()
InLoop == pc \in {"loop", "closure", "closure_fwd", "lbfgs", "after_step",
                  "record", "metrics"}
CeilDiv(a, b) == (a + b - 1) \div b
IsPrefix(s, t) == Len(s) <= Len(t) /\ SubSeq(t, 1, Len(s)) = s

\* C1: one completed train() on a fresh Experiment records exactly
\* ceil(num_epochs / val_size) snapshots in history, the first of epoch 0,
\* and as many scalars in each of the psnr, ssim and mse series of the run;
\* this is also the length of self.iters.
C1_SnapshotCount ==
    (calls = 1 /\ pc = "done") =>
        /\ Len(history) = CeilDiv(num_epochs, val_size)
        /\ Len(iters) = CeilDiv(num_epochs, val_size)
        /\ histTag[1].epoch = 0
        /\ \A s \in Series :
              /\ Len(losses[s]) = 1
              /\ Len(losses[s][1]) = CeilDiv(num_epochs, val_size)

C1_Witness ==
    /\ calls = 1
    /\ pc = "done"
    /\ num_epochs % val_size # 0
    /\ Len(history) = CeilDiv(num_epochs, val_size)

\* C2 as stated: an invalid init_type fails in __init__, so no constructed
\* Experiment has an invalid init_type and a ValueError is never raised by
\* train().
C2_Original ==
    /\ ~InConstructor => init_type \in ValidInitTypes
    /\ err = "ValueError" => pc = "init_failed"

\* C2 amended: the constructor does not look at init_type; an Experiment
\* with an invalid init_type is constructed, and every train() call on it
\* raises ValueError in init_data() (line 70) before the epoch loop is
\* entered: no optimizer step, no objective evaluation, nothing recorded.
C2_InitTypeRejectedAtTrainStart ==
    init_type \notin ValidInitTypes =>
        /\ pc = "init_failed" => measure \notin ValidMeasures
        /\ ~InLoop
        /\ pc # "done"
        /\ calls > 0 => (pc = "raised" /\ err = "ValueError")
        /\ steps = 0 /\ completed = 0
        /\ evalMeasure = NoMeasure /\ netGrad = 0
        /\ history = <<>> /\ losses = EmptySeries

C2_Witness ==
    /\ init_type \notin ValidInitTypes
    /\ measure \in ValidMeasures
    /\ calls = 2
    /\ pc = "raised"
    /\ err = "ValueError"

\* C3 as stated: with an invalid measure, __init__ raises before
\* compute_original_grad has run.
C3_Original ==
    (pc = "init_failed" /\ measure \notin ValidMeasures) => gradComputations = 0

\* C3 amended: with an invalid measure, __init__ raises ValueError in
\* create_loss_measure() (line 60), so the Experiment is never constructed
\* and train() never runs; the error comes after compute_original_grad()
\* (line 57) has run once, not before it.
C3_MeasureRejectedInInit ==
    measure \notin ValidMeasures =>
        /\ InConstructor
        /\ pc # "init_measure"
        /\ calls = 0
        /\ loss_measure = NoMeasure
        /\ pc = "init_failed" => (err = "ValueError" /\ gradComputations = 1)

C3_Witness ==
    /\ measure = "l1"
    /\ pc = "init_failed"
    /\ err = "ValueError"
    /\ original_dy_dx # <<>>

\* C4 as stated: when an epoch of train() raises, the snapshots and the
\* psnr/ssim/mse values recorded in the earlier epochs of that run are all
\* still on the Experiment object.
C4_Original ==
    (pc = "raised" /\ err = "RuntimeError") =>
        /\ Len(history) = Len(histTag)
        /\ dropped = 0

\* C4 amended: when an epoch of train() raises, every snapshot appended to
\* history so far (this run's included) is still there; the metric values
\* of the failing run were only in the local train_loss and are gone:
\* self.losses holds the sequences of the completed calls, nothing else.
C4_HistoryKeptLossesOfRunLost ==
    (pc = "raised" /\ err = "RuntimeError") =>
        /\ Len(history) = Len(histTag)
        /\ \A s \in Series : Len(losses[s]) = completed
        /\ Len(lossTag) = completed
        /\ \A i \in 1..Len(lossTag) : lossTag[i] # calls

C4_Witness ==
    /\ pc = "raised"
    /\ err = "RuntimeError"
    /\ dropped > 0
    /\ Len(history) > dropped
    /\ histTag[Len(histTag)].call = calls
    /\ completed = 0

\* C5 as stated: at the start of every closure() evaluation the gradient
\* accumulators of dummy_data, dummy_label and of the classifier parameters
\* have all been cleared.
C5_Original ==
    pc = "closure_fwd" => (dataGrad = 0 /\ labelGrad = 0 /\ netGrad = 0)

\* C5 amended: at the start of every closure() evaluation the accumulators
\* of dummy_data and dummy_label have been cleared; those of the classifier
\* parameters are never cleared: from the first evaluation on they hold
\* what the earlier backward passes wrote.
C5_DummyGradsCleared ==
    /\ pc = "closure_fwd" => (dataGrad = 0 /\ labelGrad = 0)
    /\ netGrad = 0 <=> evalMeasure = NoMeasure

C5_Witness ==
    /\ pc = "closure_fwd"
    /\ ret = "step"
    /\ evals = 1
    /\ netGrad >= 2
    /\ dataGrad = 0

\* C6: after k completed train() calls each of losses['psnr'], ['ssim'],
\* ['mse'] holds exactly k per-run sequences, in call order, and no step
\* changes or removes a sequence already there.
C6_LossesAccumulate ==
    /\ [](/\ \A s \in Series : Len(losses[s]) = completed
          /\ Len(lossTag) = completed
          /\ \A i, j \in 1..Len(lossTag) : i < j => lossTag[i] < lossTag[j])
    /\ [][\A s \in Series : IsPrefix(losses[s], losses'[s])]_vars

C6_Witness ==
    /\ completed = 2
    /\ Len(losses["mse"]) = 2
    /\ losses["mse"][1] # losses["mse"][2]
    /\ losses["mse"][1] # <<>>

\* C7: a train() call that does not raise ends after exactly num_epochs
\* optimizer.step(closure) calls, whatever loss values were seen; inside
\* the loop the step count never exceeds num_epochs.
C7_FixedStepCount ==
    /\ pc = "done" => steps = num_epochs
    /\ InLoop => (steps <= num_epochs /\ epoch <= num_epochs)
    /\ pc = "loop" => steps = epoch

C7_Witness ==
    /\ pc = "done"
    /\ num_epochs = 2
    /\ steps = 2
    /\ completed = 2

\* C8: compute_original_grad runs exactly once, in __init__; from then on
\* original_dy_dx stays the gradient list computed there, loss_measure stays
\* the measure created from it (with its sigma), and every closure
\* evaluation uses that measure.
C8_OriginalGradComputedOnce ==
    /\ gradComputations <= 1
    /\ pc \notin {"new", "init_gt"} =>
          (gradComputations = 1 /\ original_dy_dx = compute_original_grad(gt_data))
    /\ ~InConstructor =>
          loss_measure = create_loss_measure(measure, compute_original_grad(gt_data))
    /\ evalMeasure \in {NoMeasure, loss_measure}

C8_Witness ==
    /\ completed = 2
    /\ evalMeasure = [kind |-> "gaussian", sigma |-> 4, Q |-> Q]
    /\ original_dy_dx = <<1, 3, 5>>

\* C9: after any number of completed train() calls, history[j] (0-based) is
\* the snapshot of epoch j * val_size and len(history) = len(self.iters).
C9_HistoryMatchesIters ==
    (pc = "done" /\ completed = calls) =>
        /\ Len(history) = Len(iters)
        /\ \A j \in 1..Len(history) : histTag[j].epoch = (j - 1) * val_size

\* C10: the snapshot of epoch e is taken after the optimizer step of that
\* epoch, i.e. after exactly e + 1 steps of the run, e a multiple of
\* val_size (so the freshly initialized dummy data is never recorded); it is
\* the image of dummy_data as that step left it, and the extra closure()
\* evaluation of the snapshot changes neither dummy_data nor dummy_label.
C10_SnapshotAfterStep ==
    /\ [](/\ Len(history) = Len(histTag)
          /\ \A j \in 1..Len(histTag) :
                /\ histTag[j].steps = histTag[j].epoch + 1
                /\ histTag[j].epoch % val_size = 0
          /\ pc = "metrics" => history[Len(history)] = tt(dummy_data))
    /\ [][(pc \in {"after_step", "record"}
           \/ (pc \in {"closure", "closure_fwd"} /\ ret = "snap"))
          /\ pc' # "raised"
          => UNCHANGED tensors]_vars

C10_Witness ==
    /\ pc = "metrics"
    /\ val_size = 1
    /\ epoch = 1
    /\ steps = 2
    /\ history[Len(history)] = 255

====
